---------------------------- MODULE Spec2Model ----------------------------
(***************************************************************************)
(* Model of include/LightGBM/utils/openmp_wrapper.h (build with _OPENMP).  *)
(*                                                                         *)
(*  - ThreadExceptionHelper and the OMP_*_EX macros: a fork-join region    *)
(*    whose workers raise signals, capture them in the shared slot         *)
(*    ex_ptr_, and an orchestrating thread that calls ReThrow and destroys *)
(*    the helper (SpecBarrier).                                            *)
(*  - OMP_NUM_THREADS / LGBM_DEFAULT_NUM_THREADS / OMP_SET_NUM_THREADS:    *)
(*    the thread-count setter with its two function-local statics          *)
(*    (SpecThreads).                                                       *)
(*  - The build without _OPENMP: the stub queries and setters and the      *)
(*    empty OMP_*_EX macros around a sequential loop (SpecFallback).       *)
(***************************************************************************)
EXTENDS Integers, Sequences, FiniteSets, TLC

VARIABLES
  \* ---- ThreadExceptionHelper and the region that uses it ----
  ex_ptr_,      \* the slot: Null or the captured signal (line 76)
  lock_,        \* the mutex: 0 when free, else the worker holding it (line 77)
  wpc,          \* each worker's position in the loop body / CaptureException
  iter,         \* each worker's current iteration
  cur,          \* each worker's std::current_exception() inside its handler
  curLogged,    \* whether Log::Warning was called for cur[w]
  opc,          \* the orchestrating thread's position
  regions,      \* parallel regions forked so far in the helper's scope (0 or 1)
  inflight,     \* the signal unwinding the orchestrating thread's stack
  rethrown,     \* history: one record per execution of ReThrow's body: who ran it,
                \* what it re-raised, and the workers that had raised by then
  observed,     \* history: signals delivered to a handler of the orchestrating thread
  stores,       \* history: the signals assigned to ex_ptr_ at line 72, in order
  raisers,      \* history: the workers that raised a signal
  team,         \* the workers the runtime forked for the region ({} before it)
  \* ---- the thread-count setter ----
  env,                       \* the environment entry LGBM_DEFAULT_NUM_THREADS
  sysThreads,                \* the runtime's nthreads-var before any call
  default_omp_num_threads,   \* the static of line 42 (Uninit before its initialisation)
  lgbm_default_num_threads,  \* the static of line 43 (Uninit before its initialisation)
  tpc,          \* each calling thread's position in OMP_SET_NUM_THREADS
  req,          \* each calling thread's argument num_threads (kept after the call)
  applied,      \* what each thread last passed to omp_set_num_threads: <<>> or <<n>>
  envAtInit,    \* history: the environment entry read by the initialisation of line 43
  late,         \* history: whether each thread's latest call began after the
                \* entry had been read and then changed
  \* ---- the build without _OPENMP ----
  fpc,          \* the single thread's position: scope, loop, raised, done
  fiter,        \* the iteration of the sequential loop it is in
  fbOutcome,    \* the signal that left the loop towards the caller: <<>> or <<s>>
  fbSet,        \* history: the arguments given to the two stub setters, in order
  fbSeen        \* what the four stub queries last returned: <<>> or <<record>>

bvars == <<ex_ptr_, lock_, wpc, iter, cur, curLogged, opc, regions, inflight,
           rethrown, observed, stores, raisers, team>>

tvars == <<env, sysThreads, default_omp_num_threads, lgbm_default_num_threads,
           tpc, req, applied, envAtInit, late>>

fvars == <<fpc, fiter, fbOutcome, fbSet, fbSeen>>

vars == <<bvars, tvars, fvars>>

(* ------------------------------ bounds ------------------------------ *)
NumWorkers == 2
MaxIters == 2
MaxReThrow == 2
MaxLen == 2          \* longest value of the environment entry
MaxSysThreads == 2   \* largest nthreads-var the runtime starts with
MaxSetCalls == 2     \* calls of the stub setters in the build without _OPENMP

Workers == 1..NumWorkers
Null == [null |-> TRUE]
Kinds == {"std", "other"}    \* derived from std::exception, or anything else

\* The signal raised by worker w in its iteration i.
Signal(w, i, k) == [w |-> w, it |-> i, kind |-> k]

(* ------------------------- worker: loop body ------------------------- *)

\* Mutant: a worker that raised a signal leaves the loop (cancellation).
NextIter_Stops(w) ==
  /\ cur' = [cur EXCEPT ![w] = Null]
  /\ curLogged' = [curLogged EXCEPT ![w] = FALSE]
  /\ IF iter[w] < MaxIters /\ cur[w] = Null
       THEN /\ iter' = [iter EXCEPT ![w] = iter[w] + 1]
            /\ wpc' = [wpc EXCEPT ![w] = "body"]
       ELSE /\ iter' = iter
            /\ wpc' = [wpc EXCEPT ![w] = "joined"]

\* The worker goes on with its next iteration, or reaches the join.
NextIter(w) ==
  /\ cur' = [cur EXCEPT ![w] = Null]
  /\ curLogged' = [curLogged EXCEPT ![w] = FALSE]
  /\ IF iter[w] < MaxIters
       THEN /\ iter' = [iter EXCEPT ![w] = iter[w] + 1]
            /\ wpc' = [wpc EXCEPT ![w] = "body"]
       ELSE /\ iter' = iter
            /\ wpc' = [wpc EXCEPT ![w] = "joined"]

\* An iteration's body between OMP_LOOP_EX_BEGIN and OMP_LOOP_EX_END ends normally.
BodyOk(w) ==
  /\ opc = "region" /\ wpc[w] = "body"
  /\ NextIter(w)
  /\ UNCHANGED <<tvars, fvars, team>>
  /\ UNCHANGED <<ex_ptr_, lock_, opc, regions, inflight, rethrown, observed,
                 stores, raisers>>

\* The body raises a signal; the try block of OMP_LOOP_EX_BEGIN is left for
\* one of the two handlers of OMP_LOOP_EX_END.
BodyRaise(w) ==
  /\ opc = "region" /\ wpc[w] = "body"
  /\ \E k \in Kinds :
       cur' = [cur EXCEPT ![w] = Signal(w, iter[w], k)]
  /\ wpc' = [wpc EXCEPT ![w] = "catch"]
  /\ raisers' = raisers \cup {w}
  /\ UNCHANGED <<tvars, fvars, team>>
  /\ UNCHANGED <<ex_ptr_, lock_, iter, curLogged, opc, regions, inflight,
                 rethrown, observed, stores>>

\* Whether the handler that catches signal s calls Log::Warning: only
\* catch (std::exception & ex) does, catch (...) does not.
HandlerLogs(s) == s.kind = "std"

\* The handler of OMP_LOOP_EX_END: log (first handler only), then call
\* omp_except_helper.CaptureException().
Handler(w) ==
  /\ wpc[w] = "catch"
  /\ curLogged' = [curLogged EXCEPT ![w] = HandlerLogs(cur[w])]
  /\ wpc' = [wpc EXCEPT ![w] = "check1"]
  /\ UNCHANGED <<tvars, fvars, team>>
  /\ UNCHANGED <<ex_ptr_, lock_, iter, cur, opc, regions, inflight, rethrown,
                 observed, stores, raisers>>

(* ----------------- ThreadExceptionHelper::CaptureException ----------------- *)

\* Line 69 reads ex_ptr_ without holding lock_.  When another worker has
\* assigned the slot (or holds the lock and is about to), the read is not
\* ordered with that write: a data race, whose outcome is either value.  A
\* write by the reader itself is ordered before the read.
RacyWriteBy(w) ==
  \/ \E v \in Workers \ {w} : wpc[v] \in {"store", "unlock"}
  \/ /\ stores # <<>>
     /\ stores[Len(stores)].w # w

\* Mutant: the test of line 69 inverted (== for !=).
UnlockedRead_Inverted(w) == {ex_ptr_ = Null}

UnlockedRead(w) ==
  IF RacyWriteBy(w) THEN BOOLEAN ELSE {ex_ptr_ # Null}

\* Line 69: if (ex_ptr_ != nullptr) { return; }
CheckUnlocked(w) ==
  /\ wpc[w] = "check1"
  /\ \E seen \in UnlockedRead(w) :
       IF seen
         THEN NextIter(w)
         ELSE /\ wpc' = [wpc EXCEPT ![w] = "lock"]
              /\ UNCHANGED <<iter, cur, curLogged>>
  /\ UNCHANGED <<tvars, fvars, team>>
  /\ UNCHANGED <<ex_ptr_, lock_, opc, regions, inflight, rethrown, observed,
                 stores, raisers>>

\* Line 70: std::unique_lock<std::mutex> guard(lock_);
Lock(w) ==
  /\ wpc[w] = "lock"
  /\ lock_ = 0
  /\ lock_' = w
  /\ wpc' = [wpc EXCEPT ![w] = "check2"]
  /\ UNCHANGED <<tvars, fvars, team>>
  /\ UNCHANGED <<ex_ptr_, iter, cur, curLogged, opc, regions, inflight,
                 rethrown, observed, stores, raisers>>

\* Mutant: no second test under the lock.
SlotTaken_Never == FALSE

\* The outcome of the test of line 71, made under the lock.
SlotTaken == ex_ptr_ # Null

\* Line 71: if (ex_ptr_ != nullptr) { return; }   (the guard releases lock_)
CheckLocked(w) ==
  /\ wpc[w] = "check2"
  /\ IF SlotTaken
       THEN /\ lock_' = 0
            /\ NextIter(w)
       ELSE /\ wpc' = [wpc EXCEPT ![w] = "store"]
            /\ UNCHANGED <<lock_, iter, cur, curLogged>>
  /\ UNCHANGED <<tvars, fvars, team>>
  /\ UNCHANGED <<ex_ptr_, opc, regions, inflight, rethrown, observed, stores,
                 raisers>>

\* Line 72: ex_ptr_ = std::current_exception();
Store(w) ==
  /\ wpc[w] = "store"
  /\ ex_ptr_' = cur[w]
  /\ stores' = Append(stores, cur[w])
  /\ wpc' = [wpc EXCEPT ![w] = "unlock"]
  /\ UNCHANGED <<tvars, fvars, team>>
  /\ UNCHANGED <<lock_, iter, cur, curLogged, opc, regions, inflight, rethrown,
                 observed, raisers>>

\* Mutant: CaptureException returns without releasing lock_.
Unlock_NoRelease(w) ==
  /\ wpc[w] = "unlock"
  /\ lock_' = lock_
  /\ NextIter(w)
  /\ UNCHANGED <<tvars, fvars, team>>
  /\ UNCHANGED <<ex_ptr_, opc, regions, inflight, rethrown, observed, stores,
                 raisers>>

\* Line 73: the guard's destructor releases lock_; CaptureException returns.
Unlock(w) ==
  /\ wpc[w] = "unlock"
  /\ lock_' = 0
  /\ NextIter(w)
  /\ UNCHANGED <<tvars, fvars, team>>
  /\ UNCHANGED <<ex_ptr_, opc, regions, inflight, rethrown, observed, stores,
                 raisers>>

(* ------------------------ orchestrating thread ------------------------ *)

\* #pragma omp parallel for: the workers are forked inside the scope that
\* holds omp_except_helper (OMP_INIT_EX); a helper serves one region.  The
\* runtime chooses the size of the team, from one worker up.
Fork ==
  /\ opc = "scope"
  /\ regions = 0
  /\ regions' = regions + 1
  /\ opc' = "region"
  /\ \E n \in 1..NumWorkers : team' = 1..n
  /\ wpc' = [w \in Workers |-> IF w \in team' THEN "body" ELSE "idle"]
  /\ iter' = [w \in Workers |-> IF w \in team' THEN 1 ELSE 0]
  /\ UNCHANGED <<tvars, fvars>>
  /\ UNCHANGED <<ex_ptr_, lock_, cur, curLogged, inflight, rethrown, observed,
                 stores, raisers>>

\* The implicit barrier at the end of the region.
Join ==
  /\ opc = "region"
  /\ \A w \in team : wpc[w] = "joined"
  /\ opc' = "scope"
  /\ wpc' = [w \in Workers |-> "idle"]
  /\ iter' = [w \in Workers |-> 0]
  /\ UNCHANGED <<tvars, fvars, team>>
  /\ UNCHANGED <<ex_ptr_, lock_, cur, curLogged, regions, inflight, rethrown,
                 observed, stores, raisers>>

\* Mutant: ReThrow without the test of line 63.
ReThrowRaises_Always == TRUE

\* Line 63: the test ReThrow makes before std::rethrow_exception(ex_ptr_).
ReThrowRaises == ex_ptr_ # Null

\* What one execution of ReThrow's body (lines 63-65) re-raises.  The slot
\* is read; nothing is assigned to it.
ReThrowOut == IF ReThrowRaises THEN <<ex_ptr_>> ELSE <<>>

ReThrowCalls == Len(SelectSeq(rethrown, LAMBDA r : r.by = "ReThrow"))

\* OMP_THROW_EX(): omp_except_helper.ReThrow() after the join.  The call
\* site either handles the re-raised signal inside the helper's scope, or
\* lets it leave the scope, which unwinds the helper.
ReThrow ==
  /\ opc = "scope"
  /\ ReThrowCalls < MaxReThrow
  /\ rethrown' = Append(rethrown, [by |-> "ReThrow", out |-> ReThrowOut, raisers |-> raisers])
  /\ IF ReThrowOut = <<>>
       THEN UNCHANGED <<opc, inflight, observed>>
       ELSE \E handledInScope \in BOOLEAN :
              IF handledInScope
                THEN /\ observed' = Append(observed, ReThrowOut[1])
                     /\ UNCHANGED <<opc, inflight>>
                ELSE /\ inflight' = ReThrowOut[1]
                     /\ opc' = "unwinding"
                     /\ UNCHANGED observed
  /\ UNCHANGED <<tvars, fvars, team>>
  /\ UNCHANGED <<ex_ptr_, lock_, wpc, iter, cur, curLogged, regions, stores,
                 raisers>>

\* Lines 59-61: ~ThreadExceptionHelper() { ReThrow(); }, run when the scope
\* is left normally or by a signal in flight.  The destructor has no
\* exception specification, so it is noexcept: a signal that ReThrow raises
\* in it cannot leave it, and std::terminate is called.
Destructor ==
  /\ opc \in {"scope", "unwinding"}
  /\ rethrown' = Append(rethrown, [by |-> "dtor", out |-> ReThrowOut, raisers |-> raisers])
  /\ IF ReThrowOut # <<>>
       THEN /\ opc' = "terminated"
            /\ UNCHANGED <<observed, inflight>>
       ELSE IF opc = "unwinding"
         THEN /\ opc' = "raised"
              /\ observed' = Append(observed, inflight)
              /\ inflight' = Null
         ELSE /\ opc' = "done"
              /\ UNCHANGED <<observed, inflight>>
  /\ UNCHANGED <<tvars, fvars, team>>
  /\ UNCHANGED <<ex_ptr_, lock_, wpc, iter, cur, curLogged, regions, stores,
                 raisers>>

(* ----------------------- the thread-count setter ----------------------- *)

Callers == {"t1", "t2"}        \* the threads that call OMP_SET_NUM_THREADS
ReqValues == {-1, 0, 3}        \* arguments num_threads: negative, zero, positive
\* A function-local static before its initialisation (zero-initialised
\* storage, guard not set); an initialised one holds -1 or a value >= 1.
Uninit == 0

\* Values of the environment entry: strings of at most MaxLen characters.
Alphabet == {"0", "2", "-", "x"}
Strings == UNION {[1..n -> Alphabet] : n \in 0..MaxLen}
NoEnv == [set |-> FALSE, val |-> <<>>]       \* getenv returns a null pointer
EnvOf(s) == [set |-> TRUE, val |-> s]
EnvValues == {NoEnv} \cup {EnvOf(s) : s \in Strings}
\* What setenv / unsetenv writes while the process runs.
EnvWrites == {NoEnv, EnvOf(<<"2">>), EnvOf(<<"x">>)}

IsSpace(c) == c = " "
DigitVal(c) ==
  CASE c = "0" -> 0 [] c = "1" -> 1 [] c = "2" -> 2 [] c = "3" -> 3
    [] c = "4" -> 4 [] c = "5" -> 5 [] c = "6" -> 6 [] c = "7" -> 7
    [] c = "8" -> 8 [] c = "9" -> 9 [] OTHER -> -1
IsDigit(c) == DigitVal(c) >= 0

RECURSIVE SkipSpaces(_, _)
SkipSpaces(s, i) ==
  IF i <= Len(s) /\ IsSpace(s[i]) THEN SkipSpaces(s, i + 1) ELSE i

RECURSIVE Accumulate(_, _, _)
Accumulate(s, i, acc) ==
  IF i <= Len(s) /\ IsDigit(s[i])
    THEN Accumulate(s, i + 1, acc * 10 + DigitVal(s[i]))
    ELSE acc

\* strtol(val, &end, 10) of line 33: leading white space is skipped, one
\* optional sign is read, then the longest run of digits; whatever follows
\* is left unread behind end, and no digits at all give 0.  The values of
\* strings of MaxLen characters are far below 2^31, so the conversion of
\* the long result to int32_t keeps them.
strtol(s) ==
  LET i == SkipSpaces(s, 1)
      signed == i <= Len(s) /\ s[i] \in {"-", "+"}
      j == IF signed THEN i + 1 ELSE i
      magnitude == Accumulate(s, j, 0)
  IN  IF signed /\ s[i] = "-" THEN 0 - magnitude ELSE magnitude

\* Lines 29-39: LGBM_DEFAULT_NUM_THREADS(), for the environment entry e.
LGBM_DEFAULT_NUM_THREADS(e) ==
  IF e.set
    THEN LET ans == strtol(e.val)
         IN  IF ans > 0 THEN ans ELSE -1
    ELSE -1

\* Lines 21-27: OMP_NUM_THREADS().  ret starts at 1 and the master thread of
\* a probe region assigns it the size of its team, which the runtime chooses
\* between 1 and the nthreads-var n of the calling thread.
OMP_NUM_THREADS(n) == 1..n

\* Mutant: the caller's request tested before the override.
ResolveThreadCount_RequestFirst(num_threads, lgbm, dflt) ==
  IF num_threads > 0 THEN num_threads
  ELSE IF lgbm > 0 THEN lgbm
  ELSE dflt

\* Mutant: a request of zero passed on (>= for >).
ResolveThreadCount_ZeroAccepted(num_threads, lgbm, dflt) ==
  IF lgbm > 0 THEN lgbm
  ELSE IF num_threads >= 0 THEN num_threads
  ELSE dflt

\* Lines 44-50: the argument OMP_SET_NUM_THREADS passes to omp_set_num_threads.
ResolveThreadCount(num_threads, lgbm, dflt) ==
  IF lgbm > 0 THEN lgbm
  ELSE IF num_threads > 0 THEN num_threads
  ELSE dflt

\* A static is initialised by the first call that reaches its declaration.
\* Mutant: default_omp_num_threads declared without static.
DefaultInitialised_Never == FALSE
DefaultInitialised == default_omp_num_threads # Uninit
\* Mutant: lgbm_default_num_threads declared without static.
LgbmInitialised_Never == FALSE
LgbmInitialised == lgbm_default_num_threads # Uninit

\* A thread calls OMP_SET_NUM_THREADS(n).
Call(t) ==
  /\ tpc[t] = "idle"
  /\ \E n \in ReqValues : req' = [req EXCEPT ![t] = n]
  /\ tpc' = [tpc EXCEPT ![t] = "line42"]
  /\ UNCHANGED <<bvars, fvars>>
  /\ late' = [late EXCEPT ![t] = envAtInit.read /\ env # envAtInit.e]
  /\ UNCHANGED <<env, sysThreads, default_omp_num_threads,
                 lgbm_default_num_threads, applied, envAtInit>>

\* Line 42: static const int default_omp_num_threads = OMP_NUM_THREADS();
InitDefault(t) ==
  /\ tpc[t] = "line42"
  /\ IF DefaultInitialised
       THEN UNCHANGED default_omp_num_threads
       ELSE \E ret \in OMP_NUM_THREADS(sysThreads) :
              default_omp_num_threads' = ret
  /\ tpc' = [tpc EXCEPT ![t] = "line43"]
  /\ UNCHANGED <<bvars, fvars>>
  /\ UNCHANGED <<env, sysThreads, lgbm_default_num_threads, req, applied,
                 envAtInit, late>>

\* Line 43: static const int lgbm_default_num_threads = LGBM_DEFAULT_NUM_THREADS();
InitLgbm(t) ==
  /\ tpc[t] = "line43"
  /\ IF LgbmInitialised
       THEN UNCHANGED <<lgbm_default_num_threads, envAtInit>>
       ELSE /\ lgbm_default_num_threads' = LGBM_DEFAULT_NUM_THREADS(env)
            /\ envAtInit' = [read |-> TRUE, e |-> env]
  /\ tpc' = [tpc EXCEPT ![t] = "line44"]
  /\ UNCHANGED <<bvars, fvars>>
  /\ UNCHANGED <<env, sysThreads, default_omp_num_threads, req, applied, late>>

\* Lines 44-50: the call of omp_set_num_threads, and the return.
SetNumThreads(t) ==
  /\ tpc[t] = "line44"
  /\ applied' = [applied EXCEPT ![t] =
                   <<ResolveThreadCount(req[t], lgbm_default_num_threads,
                                        default_omp_num_threads)>>]
  /\ tpc' = [tpc EXCEPT ![t] = "idle"]
  /\ UNCHANGED <<bvars, fvars>>
  /\ UNCHANGED <<env, sysThreads, default_omp_num_threads,
                 lgbm_default_num_threads, req, envAtInit, late>>

\* The process (or its host) sets, changes or unsets the environment entry.
SetEnv ==
  /\ \E e \in EnvWrites \ {env} : env' = e
  /\ UNCHANGED <<bvars, fvars>>
  /\ UNCHANGED <<sysThreads, default_omp_num_threads, lgbm_default_num_threads,
                 tpc, req, applied, envAtInit, late>>

\* No thread has called the setter; both statics await their first call.
InitIdleThreads ==
  /\ default_omp_num_threads = Uninit
  /\ lgbm_default_num_threads = Uninit
  /\ tpc = [t \in Callers |-> "idle"]
  /\ req = [t \in Callers |-> 0]
  /\ applied = [t \in Callers |-> <<>>]
  /\ envAtInit = [read |-> FALSE, e |-> NoEnv]
  /\ late = [t \in Callers |-> FALSE]

(* ------------------------ the build without _OPENMP ------------------------ *)

\* Nothing has run yet in the fallback build.
InitFallbackIdle ==
  /\ fpc = "scope"
  /\ fiter = 0
  /\ fbOutcome = <<>>
  /\ fbSet = <<>>
  /\ fbSeen = <<>>

\* Mutant: a stub that answers with the last value given to a setter.
Fallback_remembered == IF fbSet = <<>> THEN 1 ELSE fbSet[Len(fbSet)].arg

\* Lines 123-126: the stub queries.
Fallback_omp_get_num_threads == 1
Fallback_omp_get_max_threads == 1
Fallback_omp_get_thread_num == 0
Fallback_OMP_NUM_THREADS == 1

\* Lines 121-122: omp_set_num_threads(int) {} and OMP_SET_NUM_THREADS(int) {}:
\* the argument is dropped; only the history records the call.
FbSet ==
  /\ fpc \in {"scope", "loop", "after"}
  /\ Len(fbSet) < MaxSetCalls
  /\ \E fn \in {"omp_set_num_threads", "OMP_SET_NUM_THREADS"}, n \in ReqValues :
       fbSet' = Append(fbSet, [fn |-> fn, arg |-> n])
  /\ UNCHANGED <<bvars, tvars>>
  /\ UNCHANGED <<fpc, fiter, fbOutcome, fbSeen>>

\* The four queries are called, after the setter calls made so far.
FbQuery ==
  /\ fpc \in {"scope", "loop", "after"}
  /\ fbSeen' = <<[num |-> Fallback_omp_get_num_threads,
                  max |-> Fallback_omp_get_max_threads,
                  tnum |-> Fallback_omp_get_thread_num,
                  NUM |-> Fallback_OMP_NUM_THREADS,
                  after |-> Len(fbSet)]>>
  /\ UNCHANGED <<bvars, tvars>>
  /\ UNCHANGED <<fpc, fiter, fbOutcome, fbSet>>

\* Line 131: OMP_INIT_EX() expands to nothing; the loop starts, run by the
\* one thread there is.
FbEnter ==
  /\ fpc = "scope"
  /\ fpc' = "loop"
  /\ fiter' = 1
  /\ UNCHANGED <<bvars, tvars>>
  /\ UNCHANGED <<fbOutcome, fbSet, fbSeen>>

\* Lines 132-133: OMP_LOOP_EX_BEGIN() and OMP_LOOP_EX_END() expand to
\* nothing; an iteration that ends normally is followed by the next.
FbBodyOk ==
  /\ fpc = "loop"
  /\ IF fiter < MaxIters
       THEN fiter' = fiter + 1 /\ fpc' = fpc
       ELSE fiter' = fiter /\ fpc' = "after"
  /\ UNCHANGED <<bvars, tvars>>
  /\ UNCHANGED <<fbOutcome, fbSet, fbSeen>>

\* Where a signal raised by the body goes: there is no try block around
\* the body, so it leaves the loop for the caller.
FbRaiseLeadsTo == "raised"

\* Lines 132-133: the body raises a signal.
FbBodyRaise ==
  /\ fpc = "loop"
  /\ \E k \in Kinds : fbOutcome' = <<Signal(1, fiter, k)>>
  /\ fpc' = FbRaiseLeadsTo
  /\ UNCHANGED <<bvars, tvars>>
  /\ UNCHANGED <<fiter, fbSet, fbSeen>>

\* Line 134: OMP_THROW_EX() expands to nothing.
FbThrowEx ==
  /\ fpc = "after"
  /\ fpc' = "done"
  /\ UNCHANGED <<bvars, tvars>>
  /\ UNCHANGED <<fiter, fbOutcome, fbSet, fbSeen>>

(* --------------------------- specification --------------------------- *)

\* Lines 55-57: ThreadExceptionHelper() { ex_ptr_ = nullptr; }
InitBarrier ==
  /\ ex_ptr_ = Null
  /\ lock_ = 0
  /\ wpc = [w \in Workers |-> "idle"]
  /\ iter = [w \in Workers |-> 0]
  /\ cur = [w \in Workers |-> Null]
  /\ curLogged = [w \in Workers |-> FALSE]
  /\ opc = "scope"
  /\ regions = 0
  /\ inflight = Null
  /\ rethrown = <<>>
  /\ observed = <<>>
  /\ stores = <<>>
  /\ raisers = {}
  /\ team = {}
  /\ InitFallbackIdle
  /\ env = NoEnv
  /\ sysThreads = 1
  /\ InitIdleThreads

WorkerStep(w) ==
  \/ BodyOk(w)
  \/ BodyRaise(w)
  \/ Handler(w)
  \/ CheckUnlocked(w)
  \/ Lock(w)
  \/ CheckLocked(w)
  \/ Store(w)
  \/ Unlock(w)

NextBarrier ==
  \/ \E w \in Workers : WorkerStep(w)
  \/ Fork
  \/ Join
  \/ ReThrow
  \/ Destructor

SpecBarrier == InitBarrier /\ [][NextBarrier]_vars

\* Fair scheduling: every worker that can take a step eventually takes one,
\* and so does the orchestrating thread.
FairSpecBarrier ==
  /\ SpecBarrier
  /\ \A w \in Workers : WF_vars(WorkerStep(w))
  /\ WF_vars(Fork \/ Join \/ ReThrow \/ Destructor)

InitThreads ==
  /\ env \in EnvValues
  /\ sysThreads \in 1..MaxSysThreads
  /\ InitIdleThreads
  /\ ex_ptr_ = Null
  /\ lock_ = 0
  /\ wpc = [w \in Workers |-> "idle"]
  /\ iter = [w \in Workers |-> 0]
  /\ cur = [w \in Workers |-> Null]
  /\ curLogged = [w \in Workers |-> FALSE]
  /\ opc = "scope"
  /\ regions = 0
  /\ inflight = Null
  /\ rethrown = <<>>
  /\ observed = <<>>
  /\ stores = <<>>
  /\ raisers = {}
  /\ team = {}
  /\ InitFallbackIdle

CallerStep(t) ==
  \/ Call(t)
  \/ InitDefault(t)
  \/ InitLgbm(t)
  \/ SetNumThreads(t)

NextThreads ==
  \/ \E t \in Callers : CallerStep(t)
  \/ SetEnv

SpecThreads == InitThreads /\ [][NextThreads]_vars

\* The build without _OPENMP starts with every part at rest.
InitFallback == InitBarrier

NextFallback ==
  \/ FbSet
  \/ FbQuery
  \/ FbEnter
  \/ FbBodyOk
  \/ FbBodyRaise
  \/ FbThrowEx

SpecFallback == InitFallback /\ [][NextFallback]_vars

(* ------------------------------- claims ------------------------------- *)

ReRaisedBy(who) ==
  {i \in 1..Len(rethrown) : rethrown[i].by = who /\ rethrown[i].out # <<>>}

\* C1: first-wins capture.  Whatever the interleaving of the workers'
\* CaptureException calls, ex_ptr_ is assigned at most once, and once it
\* holds a signal no step changes the signal it holds.
C1_FirstWins ==
  [][ /\ (ex_ptr_ # Null => ex_ptr_' = ex_ptr_)
      /\ Len(stores') <= 1 ]_vars

\* A second worker, holding the lock with a signal of its own, finds the
\* slot taken by another worker's signal.
C1_Witness ==
  \E w \in Workers :
    /\ wpc[w] = "check2"
    /\ ex_ptr_ # Null
    /\ cur[w] # ex_ptr_
    /\ ex_ptr_.w # w

\* C2: when one or more workers have raised a signal in the region, a
\* ReThrow call made after the join re-raises exactly one signal: the one
\* stored by the worker that took the slot from empty to captured (with a
\* single raising worker, that worker's signal); the slot holds that signal
\* and no other.
C2_ReThrowRaisesWinner ==
  /\ stores # <<>> => ex_ptr_ = stores[1]
  /\ \A i \in 1..Len(rethrown) :
       (rethrown[i].by = "ReThrow" /\ rethrown[i].raisers # {}) =>
         /\ stores # <<>>
         /\ rethrown[i].out = <<stores[1]>>
         /\ stores[1].w \in rethrown[i].raisers

\* ReThrow has re-raised after a region in which every worker raised.
C2_Witness ==
  \E i \in 1..Len(rethrown) :
    /\ rethrown[i].by = "ReThrow"
    /\ rethrown[i].raisers = Workers
    /\ rethrown[i].out # <<>>

\* C3 (as claimed): when ReThrow has re-raised the captured signal, the
\* destructor of the helper does not re-raise it a second time.
C3_NoSecondReRaise ==
  ReRaisedBy("ReThrow") # {} => ReRaisedBy("dtor") = {}

\* C4 (as claimed): a ReThrow call that re-raised the held signal clears the
\* slot, so no later ReThrow call re-raises anything.
C4_DrainClearsSlot ==
  ReRaisedBy("ReThrow") # {} =>
    /\ ex_ptr_ = Null
    /\ Cardinality(ReRaisedBy("ReThrow")) = 1

\* C5 (as claimed): a helper destroyed while it holds a captured signal that
\* ReThrow was never called for delivers that signal to the orchestrating
\* thread exactly once.
C5_DestructorDeliversOnce ==
  (opc \in {"done", "raised", "terminated"} /\ stores # <<>> /\ ReThrowCalls = 0) =>
    /\ observed = <<stores[1]>>
    /\ opc # "terminated"

\* C6: when no worker raises a signal the slot stays empty from construction
\* to destruction: ReThrow and the destructor re-raise nothing and the
\* orchestrating thread goes on normally.
C6_NoRaiseStaysEmpty ==
  raisers = {} =>
    /\ ex_ptr_ = Null
    /\ stores = <<>>
    /\ \A i \in 1..Len(rethrown) : rethrown[i].out = <<>>
    /\ observed = <<>>
    /\ inflight = Null
    /\ opc \in {"scope", "region", "done"}

\* A region ran, ReThrow was called and the helper was destroyed, and no
\* worker raised.
C6_Witness ==
  /\ raisers = {}
  /\ regions >= 1
  /\ opc = "done"
  /\ ReRaisedBy("ReThrow") = {}
  /\ ReThrowCalls >= 1

\* The entry as a reader of decimal numbers takes it: an optional + and then
\* digits only, with a value above zero.
Digit(c) == CHOOSE d \in 0..9 : ToString(d) = c
IsDecimal(s) ==
  /\ s # <<>>
  /\ \A i \in 1..Len(s) : \E d \in 0..9 : ToString(d) = s[i]
RECURSIVE DecimalValue(_)
DecimalValue(s) ==
  IF s = <<>> THEN 0
  ELSE 10 * DecimalValue(SubSeq(s, 1, Len(s) - 1)) + Digit(s[Len(s)])
Unsigned(s) == IF s # <<>> /\ s[1] = "+" THEN Tail(s) ELSE s
IsPositiveInteger(e) ==
  /\ e.set
  /\ IsDecimal(Unsigned(e.val))
  /\ DecimalValue(Unsigned(e.val)) > 0
OverrideValue(e) == DecimalValue(Unsigned(e.val))

\* C7: with a valid positive override, every call of OMP_SET_NUM_THREADS,
\* whatever it requests, passes the override value to omp_set_num_threads.
C7_OverrideWins ==
  \A t \in Callers :
    (applied[t] # <<>> /\ IsPositiveInteger(envAtInit.e)) =>
      applied[t] = <<OverrideValue(envAtInit.e)>>

\* Both threads have returned, one from a positive request and one from a
\* negative one, under an override that differs from the positive request.
C7_Witness ==
  /\ IsPositiveInteger(envAtInit.e)
  /\ OverrideValue(envAtInit.e) # 3
  /\ \A t \in Callers : tpc[t] = "idle" /\ applied[t] # <<>>
  /\ \E t, u \in Callers : req[t] = 3 /\ req[u] = -1

\* C8 (as claimed): an entry that is set but is not a positive integer is
\* treated as absent: the call passes the request when it is positive and
\* the probed default otherwise.
C8_MalformedIgnored ==
  \A t \in Callers :
    (/\ tpc[t] = "idle"
     /\ applied[t] # <<>>
     /\ envAtInit.e.set
     /\ ~IsPositiveInteger(envAtInit.e)) =>
      applied[t] = <<IF req[t] > 0 THEN req[t] ELSE default_omp_num_threads>>

\* C9: the value passed to omp_set_num_threads is always >= 1, whatever the
\* request, the environment entry and the earlier calls; so is the cached
\* default it falls back to.
C9_AtLeastOne ==
  /\ \A t \in Callers : applied[t] # <<>> => applied[t][1] >= 1
  /\ DefaultInitialised => default_omp_num_threads >= 1

\* A call with a negative request has returned with no override in effect.
C9_Witness ==
  \E t \in Callers :
    /\ tpc[t] = "idle"
    /\ applied[t] # <<>>
    /\ req[t] = -1
    /\ lgbm_default_num_threads = -1

\* C10: the override is determined by the first call that reaches line 43
\* and is fixed from then on: no later step changes it, and every call
\* passes what the entry read at that time resolves to, whatever the entry
\* has become since.
C10_OverrideFixed ==
  [][ /\ envAtInit.read =>
           /\ lgbm_default_num_threads' = lgbm_default_num_threads
           /\ envAtInit' = envAtInit
      /\ \A t \in Callers :
           (tpc[t] = "line44" /\ tpc'[t] = "idle") =>
             /\ envAtInit.read
             /\ applied'[t] =
                  <<ResolveThreadCount(req[t],
                                       LGBM_DEFAULT_NUM_THREADS(envAtInit.e),
                                       default_omp_num_threads)>> ]_vars

\* A call that began after the entry was read and then changed has
\* returned, and the entry still resolves to another override than the
\* cached one.
C10_Witness ==
  \E t \in Callers :
    /\ late[t]
    /\ tpc[t] = "idle"
    /\ applied[t] # <<>>
    /\ LGBM_DEFAULT_NUM_THREADS(env) # lgbm_default_num_threads
    /\ LGBM_DEFAULT_NUM_THREADS(env) > 0



\* C11: in the build without _OPENMP, after any sequence of calls of the
\* two setters the queries return 1, 1, 0 and 1; the macros intercept
\* nothing: a signal raised by the body leaves the loop for the caller from
\* the iteration that raised it, and OMP_THROW_EX re-raises nothing.
C11_FallbackConstants ==
  /\ fbSeen # <<>> =>
       /\ fbSeen[1].num = 1
       /\ fbSeen[1].max = 1
       /\ fbSeen[1].tnum = 0
       /\ fbSeen[1].NUM = 1
  /\ fpc = "raised" <=> fbOutcome # <<>>
  /\ fbOutcome # <<>> => fbOutcome[1].it = fiter

\* The queries were called after two setter calls, one of them with a
\* positive argument, and a signal of the second iteration reached the caller.
C11_Witness ==
  /\ fbSeen # <<>>
  /\ fbSeen[1].after >= 2
  /\ \E i \in 1..Len(fbSet) : fbSet[i].arg = 3
  /\ fpc = "raised"
  /\ fiter = 2

\* C12: every signal raised in a wrapped body is logged before
\* CaptureException is invoked, whatever its kind: a worker that is inside
\* CaptureException has had its signal logged.
C12_LoggedBeforeCapture ==
  \A w \in Workers :
    wpc[w] \in {"check1", "lock", "check2", "store", "unlock"} => curLogged[w]

\* C13: every access of a worker to ex_ptr_ (the reads of lines 69 and 71,
\* the write of line 72) is made while that worker holds lock_.
C13_AccessUnderLock ==
  [][\A w \in Workers :
       (wpc[w] \in {"check1", "check2", "store"} /\ wpc'[w] # wpc[w])
         => lock_ = w]_vars

\* C14: no signal escapes a worker and there is no cancellation.  A signal
\* raised in a wrapped body takes the worker to the handler and from there
\* into CaptureException only; a worker reaches the join only after its last
\* iteration and never skips one; a step of one worker inside the region
\* changes neither the position nor the iteration of a sibling; and the
\* orchestrating thread receives a signal only in an execution of ReThrow's
\* body (by OMP_THROW_EX or the destructor), outside the region.
C14_NoEscapeNoCancel ==
  [][/\ \A w \in Workers :
          /\ (cur[w] = Null /\ cur'[w] # Null) =>
                /\ wpc[w] = "body" /\ wpc'[w] = "catch"
                /\ opc' = "region"
          /\ (wpc[w] = "catch" /\ wpc'[w] # "catch") => wpc'[w] = "check1"
          /\ (wpc[w] # "joined" /\ wpc'[w] = "joined") => iter[w] = MaxIters
          /\ (opc = "region" /\ iter'[w] # iter[w]) =>
                \/ iter'[w] = iter[w] + 1
                \/ opc' = "scope"
          /\ (opc = "region" /\ opc' = "region" /\ wpc'[w] # wpc[w]) =>
                \A v \in Workers \ {w} :
                  wpc'[v] = wpc[v] /\ iter'[v] = iter[v]
     /\ (observed' # observed \/ inflight' # inflight) =>
          /\ opc \in {"scope", "unwinding"}
          /\ \A w \in Workers : wpc[w] = "idle"
          /\ Len(rethrown') = Len(rethrown) + 1
    ]_vars

\* A worker raised in its first iteration, stored the signal, and is running
\* its second iteration while a sibling that did not raise is still running.
C14_Witness ==
  \E w \in team : \E v \in team \ {w} :
    /\ opc = "region"
    /\ stores # <<>> /\ stores[1].w = w /\ stores[1].it = 1
    /\ wpc[w] = "body" /\ iter[w] = 2
    /\ wpc[v] = "body" /\ v \notin raisers

\* C15: deadlock freedom under fair scheduling.  A worker that is not
\* between lines 70 and 73 of CaptureException does not hold lock_ (every
\* return releases it); the region is left only by the join, when every
\* worker of the team has reached it and lock_ is free; the scope is left
\* only by an execution of ReThrow's body; and every region that starts is
\* eventually followed by the end of the scope.  Hence every CaptureException
\* call returns, every worker reaches the join, and ReThrow is executed.
C15_DeadlockFree ==
  /\ [](\A w \in Workers :
         wpc[w] \in {"idle", "body", "catch", "check1", "lock", "joined"}
           => lock_ # w)
  /\ [][(opc = "region" /\ opc' # "region") =>
          /\ lock_ = 0
          /\ \A w \in team : wpc[w] = "joined"]_vars
  /\ [][(opc \in {"scope", "unwinding"} /\ opc' \notin {"region", "scope", "unwinding"}) =>
          Len(rethrown') = Len(rethrown) + 1]_vars
  /\ (opc = "region") ~> (opc \in {"done", "raised", "terminated"})

\* Two workers raised concurrently: one waits for lock_ while the other
\* holds it and is about to store.
C15_Witness ==
  \E w \in team : \E v \in team \ {w} :
    /\ wpc[w] = "lock"
    /\ wpc[v] = "store"
    /\ lock_ = v

\* C16: once probed, the cached default never changes; and without an
\* override every call passes to omp_set_num_threads the request when it is
\* positive and otherwise that cached default, whatever was set before.
C16_DefaultRestored ==
  [][ /\ default_omp_num_threads >= 1 =>
           default_omp_num_threads' = default_omp_num_threads
      /\ \A t \in Callers :
           (tpc[t] = "line44" /\ tpc'[t] = "idle"
              /\ lgbm_default_num_threads <= 0) =>
             /\ default_omp_num_threads >= 1
             /\ applied'[t] =
                  <<IF req[t] > 0 THEN req[t]
                    ELSE default_omp_num_threads>> ]_vars

\* A thread whose last call set 3 has called again with a request that is
\* not positive, there is no override, and the call has passed both statics:
\* it is about to set the cached default, which is not 3.
C16_Witness ==
  \E t \in Callers :
    /\ tpc[t] = "line44"
    /\ req[t] <= 0
    /\ applied[t] = <<3>>
    /\ lgbm_default_num_threads = -1
    /\ default_omp_num_threads \in 1..MaxSysThreads

\* C17: a region run by a single worker, followed by OMP_THROW_EX, gives the
\* caller of the region what the build without _OPENMP gives it: no signal
\* when no iteration raised, and otherwise the signal of the first raising
\* iteration, once.
C17_SingleWorkerParity ==
  ( /\ team = {1}
    /\ opc \in {"done", "raised", "terminated"}
    /\ \E i \in 1..Len(rethrown) :
         /\ rethrown[i].by = "ReThrow"
         /\ raisers # {} => rethrown[i].out # <<>> )
  => IF raisers = {}
       THEN opc = "done" /\ observed = <<>>
       ELSE opc \in {"done", "raised"} /\ observed = <<stores[1]>>

=============================================================================
